---- MODULE Spec2Model ----
(***************************************************************************)
(* StringParam (src/params/string.rs): a textual plugin parameter whose    *)
(* value lives in an Arc<Mutex<String>> and is read and written from       *)
(* several threads through the Param / ParamMut traits.                    *)
(*                                                                         *)
(* The struct's fields are the first six variables.  The mutex is the      *)
(* pair (held, poisoned).  Every thread is a small program counter that    *)
(* walks through the body of the method it called, one lock operation per  *)
(* step.  The remaining variables are history variables used only to       *)
(* state properties.                                                       *)
(***************************************************************************)
EXTENDS Integers, Sequences, FiniteSets, TLC

\* ------------------------------------------------------------------ bounds

\* Number of threads sharing the parameter.
NThreads == 2

\* Total number of method calls made on the published parameter.
MaxCalls == 2

Threads == 1..NThreads

\* The strings used as arguments of the write calls.
Values == {"a", "b", "c"}

\* The strings used as the default handed to new().
Defaults == {"a", "b"}

\* Normalized inputs, in tenths: 0.0 and 1.0.
Norms == {0, 10}

\* Sample rates handed to update_smoother.
Rates == {44100}

\* Units given to with_unit.
Units == {"dB"}

\* No thread holds the mutex.
Free == 0

VARIABLES
    value,            \* contents of the Mutex<String>
    default,          \* the `default` field
    flags,            \* the `flags` field, a set of flag names
    value_changed,    \* TRUE iff the `value_changed` callback is Some
    unit,             \* the `unit` field
    value_to_string,  \* "None", or the name of the formatter that is set
    held,             \* the thread holding the mutex, or Free
    poisoned,         \* the mutex's poison flag
    pc,               \* per thread: where it is in the method it called
    call,             \* per thread: the method called and its arguments
    plain,            \* per thread: the `plain` parameter of set_plain_value / set_value
    ret,              \* per thread: the value returned by its last call
    ncalls,           \* calls made so far
    fired,            \* per thread: arguments the change callback got during its call
    prev,             \* history: per thread, its previous call if that was set_plain_value
    intervened,       \* history: per thread, another thread stored since its last return
    quiet,            \* history: per thread, no other thread stored between its last two returns
    replaced,         \* history: per thread, the value its store overwrote
    written,          \* history: arguments of the write calls started so far
    ctor_default,     \* history: the default passed to new()
    last_stored,      \* history: the argument of the latest store, or the default
    seen,             \* history: per thread, last_stored when it last locked to read
    acquired          \* history: per thread, lock acquisitions during its call

vars == <<value, default, flags, value_changed, unit, value_to_string, held,
          poisoned, pc, call, plain, ret, ncalls, fired, prev, intervened,
          quiet, replaced, written, ctor_default, last_stored, seen, acquired>>

fields == <<default, flags, value_changed, unit, value_to_string>>
mutex  == <<held, poisoned>>

\* ------------------------------------------------------------- data values

AllFlags == {"NON_AUTOMATABLE", "HIDDEN", "HIDE_IN_GENERIC_UI"}

\* A call: the method, and those of its arguments that its body reads.  The
\* arguments a body ignores (`_normalized`, `_plain`, `_modulation_offset`,
\* `_sample_rate`, `_reset`) are chosen by the action and not kept.
NoCall == [op |-> "none", plain |-> "", include_unit |-> FALSE]

NoRet == [kind |-> "none", b |-> FALSE, s |-> "", n |-> 0, f |-> {}]

RetBool(x)   == [NoRet EXCEPT !.kind = "bool", !.b = x]
RetString(x) == [NoRet EXCEPT !.kind = "string", !.s = x]
RetF32(x)    == [NoRet EXCEPT !.kind = "f32", !.n = x]
RetFlags(x)  == [NoRet EXCEPT !.kind = "flags", !.f = x]
RetUnit      == [NoRet EXCEPT !.kind = "unit"]

NoPrev == [op |-> "none", plain |-> "", b |-> FALSE]

\* A user formatter handed to with_value_to_string.
Bracket(s) == "[" \o s \o "]"

ApplyFormatter(f, s) == IF f = "Bracket" THEN Bracket(s) ELSE s

\* ------------------------------------------------------------ construction

New(d) ==
    /\ default = d
    /\ value = d
    /\ flags = (({} \cup {"HIDDEN"}) \cup {"HIDE_IN_GENERIC_UI"}) \cup {"NON_AUTOMATABLE"}
    /\ value_changed = FALSE
    /\ unit = ""
    /\ value_to_string = "None"

Init ==
    /\ \E d \in Defaults : New(d) /\ ctor_default = d
    /\ held = Free
    /\ poisoned = FALSE
    /\ pc = [t \in Threads |-> "idle"]
    /\ call = [t \in Threads |-> NoCall]
    /\ plain = [t \in Threads |-> ""]
    /\ ret = [t \in Threads |-> NoRet]
    /\ ncalls = 0
    /\ fired = [t \in Threads |-> <<>>]
    /\ prev = [t \in Threads |-> NoPrev]
    /\ intervened = [t \in Threads |-> FALSE]
    /\ quiet = [t \in Threads |-> TRUE]
    /\ replaced = [t \in Threads |-> ""]
    /\ written = {}
    /\ last_stored = ctor_default
    /\ seen = [t \in Threads |-> ""]
    /\ acquired = [t \in Threads |-> 0]

\* ------------------------------------------------------------------ builder

\* The builder methods take `self` by value: they run while the parameter is
\* still exclusively owned, before any method is called through a shared
\* reference.
Unpublished == ncalls = 0 /\ \A t \in Threads : pc[t] = "idle"

calls == <<held, poisoned, pc, call, plain, ret, ncalls, fired, prev, intervened,
           quiet, replaced, written, ctor_default, last_stored, seen, acquired>>

with_callback ==
    /\ Unpublished
    /\ value_changed' = TRUE
    /\ UNCHANGED <<value, default, flags, unit, value_to_string, calls>>

with_unit(u) ==
    /\ Unpublished
    /\ unit' = u
    /\ UNCHANGED <<value, default, flags, value_changed, value_to_string, calls>>

with_value_to_string(f) ==
    /\ Unpublished
    /\ value_to_string' = f
    /\ UNCHANGED <<value, default, flags, value_changed, unit, calls>>

non_automatable ==
    /\ Unpublished
    /\ flags' = flags \cup {"NON_AUTOMATABLE"}
    /\ UNCHANGED <<value, default, value_changed, unit, value_to_string, calls>>

\* hide removing the flag instead of inserting it.
hide_clears ==
    /\ Unpublished
    /\ flags' = flags \ {"HIDDEN"}
    /\ UNCHANGED <<value, default, value_changed, unit, value_to_string, calls>>

hide ==
    /\ Unpublished
    /\ flags' = flags \cup {"HIDDEN"}
    /\ UNCHANGED <<value, default, value_changed, unit, value_to_string, calls>>

hide_in_generic_ui ==
    /\ Unpublished
    /\ flags' = flags \cup {"HIDE_IN_GENERIC_UI"}
    /\ UNCHANGED <<value, default, value_changed, unit, value_to_string, calls>>

\* ------------------------------------------------------- pure method bodies

\* preview_normalized ignores its argument.
preview_normalized(p) == 0

\* modulate_value reporting a non-zero offset as applied.
OffsetApplied(offset) == offset /= 0

modulate_value_result(offset) == FALSE

\* default_plain_value returning the current value instead of the default.
CurrentInsteadOfDefault == value

default_plain_value_result == default

flags_result == flags

\* preview_plain mapping the lowest normalized value to the default.
ResetAtZero(cloned, normalized) == IF normalized = 0 THEN default ELSE cloned

\* What preview_plain returns, given the string cloned under the lock.
preview_plain_result(cloned, normalized) == cloned

\* The test treating every write as redundant.
NeverDiffers(current, p) == FALSE

\* The test of set_plain_value / set_value: self.value() != plain.
Differs(current, p) == current /= p

\* The store left out: the guard is taken and the old string stays.
KeepOld(old, p) == old

\* The store appending to the old string instead of replacing it.
Appended(old, p) == old \o p

\* *h = plain
Assigned(old, p) == p

\* The unit appended whether or not it was asked for.
UnitAlways(v, include_unit) ==
    IF value_to_string /= "None"
    THEN ApplyFormatter(value_to_string, v) \o unit
    ELSE v \o unit

\* The four arms of normalized_value_to_string's match.
normalized_value_to_string_result(v, include_unit) ==
    CASE value_to_string /= "None" /\ include_unit ->
             ApplyFormatter(value_to_string, v) \o unit
      [] value_to_string /= "None" /\ ~include_unit ->
             ApplyFormatter(value_to_string, v)
      [] value_to_string = "None" /\ include_unit -> v \o unit
      [] OTHER -> v

\* -------------------------------------------------------- call and return

\* The call thread t has just completed, as far as the properties need it: a
\* set_plain_value call with its argument and its result.
Completed(t) ==
    IF call[t].op = "set_plain_value"
    THEN [op |-> call[t].op, plain |-> call[t].plain, b |-> ret[t].b]
    ELSE NoPrev

\* Thread t calls a method: c is the method and its arguments, at is the first
\* step of its body.
Begin(t, c, at) ==
    /\ pc[t] = "idle"
    /\ ncalls < MaxCalls
    /\ ncalls' = ncalls + 1
    /\ call' = [call EXCEPT ![t] = c]
    /\ pc' = [pc EXCEPT ![t] = at]
    /\ ret' = [ret EXCEPT ![t] = NoRet]
    /\ prev' = [prev EXCEPT ![t] = Completed(t)]
    /\ replaced' = [replaced EXCEPT ![t] = ""]
    /\ fired' = [fired EXCEPT ![t] = <<>>]
    /\ seen' = [seen EXCEPT ![t] = ""]
    /\ acquired' = [acquired EXCEPT ![t] = 0]

\* Thread t returns r from the method it called.
Return(t, r) ==
    /\ pc' = [pc EXCEPT ![t] = "idle"]
    /\ ret' = [ret EXCEPT ![t] = r]
    /\ quiet' = [quiet EXCEPT ![t] = ~intervened[t]]

\* A method that touches neither the mutex nor the value: called and returned
\* in one step.
Immediate(t, c, r) ==
    /\ pc[t] = "idle"
    /\ ncalls < MaxCalls
    /\ ncalls' = ncalls + 1
    /\ call' = [call EXCEPT ![t] = c]
    /\ ret' = [ret EXCEPT ![t] = r]
    /\ prev' = [prev EXCEPT ![t] = Completed(t)]
    /\ quiet' = [quiet EXCEPT ![t] = ~intervened[t]]
    /\ intervened' = [intervened EXCEPT ![t] = FALSE]
    /\ fired' = [fired EXCEPT ![t] = <<>>]
    /\ seen' = [seen EXCEPT ![t] = ""]
    /\ acquired' = [acquired EXCEPT ![t] = 0]
    /\ UNCHANGED <<value, fields, mutex, pc, plain, replaced, written, ctor_default,
                   last_stored>>

\* ------------------------------------------------------------ entry points

set_plain_value(t, p) ==
    /\ Begin(t, [NoCall EXCEPT !.op = "set_plain_value", !.plain = p], "value_lock")
    /\ plain' = [plain EXCEPT ![t] = p]
    /\ written' = written \cup {p}
    /\ UNCHANGED <<value, fields, mutex, intervened, quiet, ctor_default, last_stored>>

\* set_value storing without comparing first.
set_value_unconditional(t, p) ==
    /\ Begin(t, [NoCall EXCEPT !.op = "set_value", !.plain = p], "store_lock")
    /\ plain' = [plain EXCEPT ![t] = p]
    /\ written' = written \cup {p}
    /\ UNCHANGED <<value, fields, mutex, intervened, quiet, ctor_default, last_stored>>

set_value(t, p) ==
    /\ Begin(t, [NoCall EXCEPT !.op = "set_value", !.plain = p], "value_lock")
    /\ plain' = [plain EXCEPT ![t] = p]
    /\ written' = written \cup {p}
    /\ UNCHANGED <<value, fields, mutex, intervened, quiet, ctor_default, last_stored>>

set_normalized_value(t) ==
    /\ Begin(t, [NoCall EXCEPT !.op = "set_normalized_value"],
             "preview_lock")
    /\ UNCHANGED <<value, fields, mutex, plain, intervened, quiet, written,
                   ctor_default, last_stored>>

modulated_plain_value(t) ==
    /\ Begin(t, [NoCall EXCEPT !.op = "modulated_plain_value"], "value_lock")
    /\ UNCHANGED <<value, fields, mutex, plain, intervened, quiet, written,
                   ctor_default, last_stored>>

unmodulated_plain_value(t) ==
    /\ Begin(t, [NoCall EXCEPT !.op = "unmodulated_plain_value"], "value_lock")
    /\ UNCHANGED <<value, fields, mutex, plain, intervened, quiet, written,
                   ctor_default, last_stored>>

preview_plain(t) ==
    /\ Begin(t, [NoCall EXCEPT !.op = "preview_plain"],
             "preview_lock")
    /\ UNCHANGED <<value, fields, mutex, plain, intervened, quiet, written,
                   ctor_default, last_stored>>

\* Rendering that resets the stored string to the default on the way.
render_and_reset(t, u) ==
    /\ Begin(t, [NoCall EXCEPT !.op = "normalized_value_to_string",
                               !.include_unit = u],
             "preview_lock")
    /\ value' = default
    /\ UNCHANGED <<fields, mutex, plain, intervened, quiet, written,
                   ctor_default, last_stored>>

normalized_value_to_string(t, u) ==
    /\ Begin(t, [NoCall EXCEPT !.op = "normalized_value_to_string",
                               !.include_unit = u],
             "preview_lock")
    /\ UNCHANGED <<value, fields, mutex, plain, intervened, quiet, written,
                   ctor_default, last_stored>>

PreviewNormalized(t, p) ==
    /\ Immediate(t, [NoCall EXCEPT !.op = "preview_normalized"],
                 RetF32(preview_normalized(p)))

default_plain_value(t) ==
    /\ Immediate(t, [NoCall EXCEPT !.op = "default_plain_value"],
                 RetString(default_plain_value_result))

Flags(t) ==
    /\ Immediate(t, [NoCall EXCEPT !.op = "flags"], RetFlags(flags_result))

modulate_value(t, offset) ==
    /\ Immediate(t, [NoCall EXCEPT !.op = "modulate_value"],
                 RetBool(modulate_value_result(offset)))

update_smoother(t, rate, reset) ==
    /\ Immediate(t, [NoCall EXCEPT !.op = "update_smoother"],
                 RetUnit)

\* ------------------------------------------------------------------- steps

\* A lock that does not exclude: it is granted while another thread holds it.
LockNoWait(t, next) ==
    /\ IF poisoned
       THEN /\ pc' = [pc EXCEPT ![t] = "panicked"]
            /\ held' = held
            /\ acquired' = acquired
       ELSE /\ pc' = [pc EXCEPT ![t] = next]
            /\ held' = t
            /\ acquired' = [acquired EXCEPT ![t] = @ + 1]
    /\ UNCHANGED poisoned

\* self.value.lock().unwrap() by a thread that does not hold the mutex: it
\* waits until the mutex is free; on a poisoned mutex lock() returns Err, unwrap
\* panics and the guard inside the error is dropped again.
LockUnwrap(t, next) ==
    /\ held = Free
    /\ IF poisoned
       THEN /\ pc' = [pc EXCEPT ![t] = "panicked"]
            /\ held' = held
            /\ acquired' = acquired
       ELSE /\ pc' = [pc EXCEPT ![t] = next]
            /\ held' = t
            /\ acquired' = [acquired EXCEPT ![t] = @ + 1]
    /\ UNCHANGED poisoned

\* modulated_plain_value / unmodulated_plain_value / value(): take the lock.
ValueLock(t) ==
    /\ pc[t] = "value_lock"
    /\ LockUnwrap(t, "value_clone")
    /\ seen' = IF poisoned THEN seen ELSE [seen EXCEPT ![t] = last_stored]
    /\ UNCHANGED <<value, fields, call, plain, ret, ncalls, fired, prev, intervened,
                   quiet, replaced, written, ctor_default, last_stored>>

\* ... clone the string and drop the guard.  A plain read returns the clone;
\* set_plain_value / set_value compare it with `plain`.
ValueClone(t) ==
    /\ pc[t] = "value_clone"
    /\ held = t
    /\ held' = Free
    /\ IF call[t].op \in {"modulated_plain_value", "unmodulated_plain_value"}
       THEN /\ Return(t, RetString(value))
            /\ intervened' = [intervened EXCEPT ![t] = FALSE]
       ELSE IF Differs(value, plain[t])
       THEN /\ pc' = [pc EXCEPT ![t] = "store_lock"]
            /\ UNCHANGED <<ret, quiet, intervened>>
       ELSE /\ Return(t, RetBool(FALSE))
            /\ intervened' = [intervened EXCEPT ![t] = FALSE]
    /\ UNCHANGED <<value, fields, poisoned, call, plain, ncalls, fired, prev,
                   replaced, written, ctor_default, last_stored, seen, acquired>>

\* preview_plain: take the lock.
PreviewLock(t) ==
    /\ pc[t] = "preview_lock"
    /\ LockUnwrap(t, "preview_clone")
    /\ seen' = IF poisoned THEN seen ELSE [seen EXCEPT ![t] = last_stored]
    /\ UNCHANGED <<value, fields, call, plain, ret, ncalls, fired, prev, intervened,
                   quiet, replaced, written, ctor_default, last_stored>>

\* ... clone the string and drop the guard.  `normalized` is the argument the
\* caller passed.  set_normalized_value passes the clone on to set_plain_value,
\* normalized_value_to_string formats it.
PreviewClone(t) ==
    /\ pc[t] = "preview_clone"
    /\ held = t
    /\ held' = Free
    /\ \E normalized \in Norms :
       LET got == preview_plain_result(value, normalized) IN
       CASE call[t].op = "set_normalized_value" ->
                /\ plain' = [plain EXCEPT ![t] = got]
                /\ pc' = [pc EXCEPT ![t] = "value_lock"]
                /\ UNCHANGED <<ret, quiet, intervened>>
         [] call[t].op = "normalized_value_to_string" ->
                /\ Return(t, RetString(
                       normalized_value_to_string_result(got, call[t].include_unit)))
                /\ intervened' = [intervened EXCEPT ![t] = FALSE]
                /\ UNCHANGED plain
         [] OTHER ->
                /\ Return(t, RetString(got))
                /\ intervened' = [intervened EXCEPT ![t] = FALSE]
                /\ UNCHANGED plain
    /\ UNCHANGED <<value, fields, poisoned, call, ncalls, fired, prev, replaced,
                   written, ctor_default, last_stored, seen, acquired>>

\* let mut h = self.value.lock().unwrap();
StoreLock(t) ==
    /\ pc[t] = "store_lock"
    /\ LockUnwrap(t, "store")
    /\ UNCHANGED <<value, fields, call, plain, ret, ncalls, fired, prev, intervened,
                   quiet, replaced, written, ctor_default, last_stored, seen>>

\* *h = plain; then `if let Some(f) = &self.value_changed`.  Without a callback
\* the block ends: h is dropped and the call returns true.  With a callback the
\* argument of f is evaluated next, with h still alive.
Store(t) ==
    /\ pc[t] = "store"
    /\ held = t
    /\ value' = Assigned(value, plain[t])
    /\ replaced' = [replaced EXCEPT ![t] = value]
    /\ last_stored' = plain[t]
    /\ IF value_changed
       THEN /\ pc' = [pc EXCEPT ![t] = "callback_lock"]
            /\ intervened' = [u \in Threads |-> IF u = t THEN intervened[u] ELSE TRUE]
            /\ UNCHANGED <<held, ret, quiet>>
       ELSE /\ held' = Free
            /\ Return(t, RetBool(TRUE))
            /\ intervened' = [u \in Threads |-> u /= t]
    /\ UNCHANGED <<fields, poisoned, call, plain, ncalls, fired, prev, written,
                   ctor_default, seen, acquired>>

\* f(self.value.as_ref().lock().unwrap().clone()) while h is alive: the thread
\* locks a mutex it already holds.  std::sync::Mutex leaves the outcome
\* unspecified, except that lock() does not return: the thread blocks for ever,
\* or it panics, and then the unwinding drops h, which poisons and unlocks the
\* mutex.  Either way f is never called.
CallbackLock(t) ==
    /\ pc[t] = "callback_lock"
    /\ held = t
    /\ \/ /\ pc' = [pc EXCEPT ![t] = "deadlocked"]
          /\ UNCHANGED <<held, poisoned>>
       \/ /\ pc' = [pc EXCEPT ![t] = "panicked"]
          /\ held' = Free
          /\ poisoned' = TRUE
    /\ UNCHANGED <<value, fields, call, plain, ret, ncalls, fired, prev, intervened,
                   quiet, replaced, written, ctor_default, last_stored, seen, acquired>>

\* ------------------------------------------------------------ specification

Next ==
    \/ with_callback
    \/ non_automatable
    \/ hide
    \/ hide_in_generic_ui
    \/ \E t \in Threads :
          \/ \E p \in Values : set_plain_value(t, p)
          \/ \E p \in Values : set_value(t, p)
          \/ set_normalized_value(t)
          \/ modulated_plain_value(t)
          \/ unmodulated_plain_value(t)
          \/ preview_plain(t)
          \/ \E p \in Values : PreviewNormalized(t, p)
          \/ default_plain_value(t)
          \/ Flags(t)
          \/ \E x \in Norms : modulate_value(t, x)
          \/ \E r \in Rates, b \in BOOLEAN : update_smoother(t, r, b)
          \/ ValueLock(t)
          \/ ValueClone(t)
          \/ PreviewLock(t)
          \/ PreviewClone(t)
          \/ StoreLock(t)
          \/ Store(t)
          \/ CallbackLock(t)

Spec == Init /\ [][Next]_vars

\* The steps thread t takes inside a method body.  Once a method is called the
\* operating system keeps scheduling the calling thread, so a step that stays
\* possible is eventually taken.
Step(t) ==
    \/ ValueLock(t)
    \/ ValueClone(t)
    \/ PreviewLock(t)
    \/ PreviewClone(t)
    \/ StoreLock(t)
    \/ Store(t)
    \/ CallbackLock(t)

FairSpec == Spec /\ \A t \in Threads : WF_vars(Step(t))

\* The display path: the builder sets a unit and a formatter, and threads
\* render the value while others write it.
NextDisplay ==
    \/ with_callback
    \/ \E u \in Units : with_unit(u)
    \/ with_value_to_string("Bracket")
    \/ non_automatable
    \/ hide
    \/ hide_in_generic_ui
    \/ \E t \in Threads :
          \/ \E p \in Values : set_plain_value(t, p)
          \/ \E u \in BOOLEAN : normalized_value_to_string(t, u)
          \/ preview_plain(t)
          \/ Flags(t)
          \/ Step(t)

SpecDisplay == Init /\ [][NextDisplay]_vars

\* -------------------------------------------------------------- properties

\* Thread t has returned from a call of op.
Returned(t, op) == pc[t] = "idle" /\ call[t].op = op

\* Thread t stored in its current call and then left the call without
\* returning: it blocked for ever or panicked on the lock it held itself.
AbortedAfterStore(t) == replaced[t] /= "" /\ pc[t] \in {"deadlocked", "panicked"}

\* Thread t's last two calls were set_plain_value(v), set_plain_value(v), and
\* no other thread stored from the first return to the second.
Repeated(t) ==
    /\ Returned(t, "set_plain_value")
    /\ prev[t].op = "set_plain_value"
    /\ prev[t].plain = call[t].plain
    /\ quiet[t]

\* C1: with a change callback registered, set_plain_value(v) called twice in
\* succession by a thread, with no other write in between: both calls return,
\* the second returns false, does not invoke the callback, and the stored value
\* is v afterwards.
C1_NoOpSuppression ==
    \A t \in Threads :
        value_changed /\ call[t].op = "set_plain_value" =>
            /\ ~AbortedAfterStore(t)
            /\ Repeated(t) =>
                  /\ ret[t].b = FALSE
                  /\ fired[t] = <<>>
                  /\ ~intervened[t] => value = call[t].plain

\* C2: the compare and the store of a write are one atomic step: a
\* set_plain_value / set_value call returns true only if the value it
\* overwrote differed from its argument.
C2_WritesLinearized ==
    \A t \in Threads :
        /\ pc[t] = "idle"
        /\ call[t].op \in {"set_plain_value", "set_value"}
        /\ ret[t].b
        => replaced[t] /= plain[t]

\* C3: a writing thread never tries to take the value lock while it still
\* holds it: the lock is released before the callback's argument is read.
C3_LockReleasedBeforeCallback ==
    \A t \in Threads : pc[t] = "callback_lock" => held /= t

\* C4: under fair scheduling every call eventually returns.
C4_EveryCallReturns ==
    \A t \in Threads : (pc[t] /= "idle") ~> (pc[t] = "idle")

\* C5: with a callback registered, a set_plain_value / set_value call that
\* replaced the stored value and has come to its end (returned, panicked or
\* blocked for ever) has invoked the callback exactly once, with the new value.
C5_CallbackAfterAcceptedWrite ==
    \A t \in Threads :
        /\ value_changed
        /\ call[t].op \in {"set_plain_value", "set_value"}
        /\ replaced[t] /= ""
        /\ pc[t] \in {"idle", "deadlocked", "panicked"}
        => fired[t] = <<plain[t]>>

\* Thread t has returned from modulated_plain_value, its call before that was a
\* set_plain_value that returned true, and no other thread stored in between.
ReadAfterWrite(t) ==
    /\ Returned(t, "modulated_plain_value")
    /\ prev[t].op = "set_plain_value"
    /\ prev[t].b
    /\ quiet[t]

\* C6: after set_plain_value(v) returned true, an immediately following
\* modulated_plain_value() by the same thread, with no write by another thread
\* in between, returns v.
C6_ReadAfterWrite ==
    \A t \in Threads : ReadAfterWrite(t) => ret[t].s = prev[t].plain

C6_Witness == \E t \in Threads : ReadAfterWrite(t)

Writers == {t \in Threads : call[t].op = "set_plain_value"}

RECURSIVE FiredCount(_)
FiredCount(S) ==
    IF S = {} THEN 0
    ELSE LET t == CHOOSE x \in S : TRUE IN Len(fired[t]) + FiredCount(S \ {t})

\* Every call made so far is the single set_plain_value call of a distinct
\* thread, the arguments are pairwise distinct and differ from the initial
\* value, and every writer has finished (returned or panicked).
ParallelWritersDone ==
    /\ Writers /= {}
    /\ ncalls = Cardinality(Writers)
    /\ \A t \in Writers : pc[t] \in {"idle", "panicked"}
    /\ \A t, u \in Writers : t /= u => call[t].plain /= call[u].plain
    /\ \A t \in Writers : call[t].plain /= ctor_default

\* C7: once N parallel writers with pairwise distinct values have finished, the
\* stored value is one of the N written values and the callback has been
\* invoked at most N times.
C7_ParallelWriters ==
    ParallelWritersDone =>
        /\ value \in {call[t].plain : t \in Writers}
        /\ FiredCount(Threads) <= Cardinality(Writers)

C7_Witness ==
    /\ ParallelWritersDone
    /\ Cardinality(Writers) >= 2
    /\ \A t \in Writers : pc[t] = "idle" /\ ret[t].b

\* The default and the arguments of the write calls started so far.
FullyFormed == {ctor_default} \cup written

\* C8: the stored value, and every value a reader has obtained, is the default
\* or the complete argument of a write call that has been started.
C8_FullyFormed ==
    /\ value \in FullyFormed
    /\ \A t \in Threads :
          /\ plain[t] /= "" => plain[t] \in FullyFormed
          /\ /\ pc[t] = "idle"
             /\ call[t].op \in {"modulated_plain_value", "unmodulated_plain_value",
                                "preview_plain"}
             => ret[t].s \in FullyFormed

C8_Witness ==
    \E t \in Threads :
        /\ Returned(t, "modulated_plain_value")
        /\ ret[t].s \in written
        /\ ret[t].s /= ctor_default

\* C9: default_plain_value() returns the default passed to new(), whatever has
\* been written since.
C9_DefaultUnchanged ==
    /\ default = ctor_default
    /\ \A t \in Threads :
          Returned(t, "default_plain_value") => ret[t] = RetString(ctor_default)

C9_Witness ==
    \E t \in Threads : Returned(t, "default_plain_value") /\ value /= ctor_default

\* C10: preview_normalized returns 0.0 for every plain value, and preview_plain
\* returns the stored value, whatever normalized value it is given.
C10_DegenerateMapping ==
    \A t \in Threads :
        /\ Returned(t, "preview_normalized") => ret[t] = RetF32(0)
        /\ Returned(t, "preview_plain") /\ ~intervened[t] => ret[t] = RetString(value)

C10_Witness ==
    \E t, u \in Threads :
        /\ Returned(t, "preview_plain") /\ ~intervened[t]
        /\ Returned(u, "preview_normalized")

\* The text the display contract prescribes for the stored string v.
Rendered(v, include_unit) ==
    (IF value_to_string = "None" THEN v ELSE Bracket(v))
        \o (IF include_unit THEN unit ELSE "")

\* C11: normalized_value_to_string returns the stored value it read under the
\* lock, passed through the custom formatter if one is set, followed by the unit
\* exactly when include_unit is true; with no formatter and unit "dB" the value
\* "hello" is rendered "hellodB" with include_unit and "hello" without.
C11_DisplayString ==
    /\ \A t \in Threads :
          Returned(t, "normalized_value_to_string") =>
              /\ seen[t] \in FullyFormed
              /\ ret[t] = RetString(Rendered(seen[t], call[t].include_unit))
    /\ value_to_string = "None" /\ unit = "dB" =>
          /\ normalized_value_to_string_result("hello", TRUE) = "hellodB"
          /\ normalized_value_to_string_result("hello", FALSE) = "hello"

C11_Witness ==
    \E t, u \in Threads :
        /\ Returned(t, "normalized_value_to_string")
        /\ call[t].include_unit
        /\ unit = "dB"
        /\ value_to_string = "None"
        /\ Returned(u, "set_plain_value")
        /\ ret[u].b
        /\ ret[t].s = call[u].plain \o "dB"
        /\ call[u].plain /= ctor_default

\* C12: NON_AUTOMATABLE, HIDDEN and HIDE_IN_GENERIC_UI are set from
\* construction on, through every builder call and every value write, and
\* flags() reports them: no step clears a flag.
C12_FlagsStaySet ==
    /\ AllFlags \subseteq flags
    /\ \A t \in Threads : Returned(t, "flags") => AllFlags \subseteq ret[t].f

C12_Witness ==
    \E t \in Threads :
        /\ Returned(t, "flags")
        /\ ret[t].f = AllFlags
        /\ unit = "dB"
        /\ value_to_string = "Bracket"
        /\ value_changed
        /\ value /= ctor_default

PlainReads == {"modulated_plain_value", "unmodulated_plain_value"}

WriteCalls == {"set_plain_value", "set_value", "set_normalized_value"}

\* C13: a read returns the value of the last store that happened before the
\* read took the lock, or the default if there was none.  The stored string is
\* always that of the last store; it does not change while a reader holds the
\* lock; modulated_plain_value and unmodulated_plain_value return what they
\* saw, and value() inside a write compares what it saw.
C13_ReadersSeeLastStore ==
    /\ value = last_stored
    /\ \A t \in Threads :
          /\ pc[t] = "value_clone" => seen[t] = last_stored
          /\ pc[t] = "idle" /\ call[t].op \in PlainReads =>
                ret[t] = RetString(seen[t])
          /\ pc[t] = "idle" /\ call[t].op \in WriteCalls =>
                ret[t] = RetBool(seen[t] /= plain[t])
          /\ pc[t] = "store_lock" => seen[t] /= plain[t]

C13_Witness ==
    \E t, u \in Threads :
        /\ t /= u
        /\ Returned(u, "set_value")
        /\ ret[u].b
        /\ call[u].plain /= ctor_default
        /\ Returned(t, "unmodulated_plain_value")
        /\ ret[t].s = call[u].plain

\* Thread t takes a step of a normalized_value_to_string call: the call, one of
\* the steps of its body, or its return.
RenderStep(t) ==
    /\ pc'[t] /= pc[t]
    /\ call'[t].op = "normalized_value_to_string"

\* C14: no step of a normalized_value_to_string call changes the stored value,
\* the default or the flags or invokes the callback, and the call holds no lock
\* when it returns.
C14_DisplayIsPure ==
    [][\A t \in Threads :
          RenderStep(t) =>
              /\ value' = value
              /\ default' = default
              /\ flags' = flags
              /\ fired' = fired
              /\ pc'[t] = "idle" => held' = Free /\ poisoned' = poisoned]_vars

C14_Witness ==
    \E t \in Threads :
        /\ Returned(t, "normalized_value_to_string")
        /\ acquired[t] = 1
        /\ held = Free
        /\ value /= ctor_default
        /\ ret[t].s = Rendered(value, call[t].include_unit)

\* What a call that is a no-op leaves alone: the mutex, the stored value, the
\* fields and the callback record; the calling thread acquired no lock.
NoOpBy(t) ==
    /\ UNCHANGED <<value, fields, mutex, fired, last_stored>>
    /\ acquired'[t] = 0
    /\ pc'[t] = "idle"

\* C15: modulate_value returns false for every offset, update_smoother returns
\* nothing, and neither touches the lock, the stored value or the callback.
C15_ModulationNoOps ==
    [][\A t \in Threads :
          /\ (\E x \in Norms : modulate_value(t, x)) =>
                 NoOpBy(t) /\ ret'[t] = RetBool(FALSE)
          /\ (\E r \in Rates, b \in BOOLEAN : update_smoother(t, r, b)) =>
                 NoOpBy(t) /\ ret'[t] = RetUnit]_vars

C15_Witness ==
    \E t, u \in Threads :
        /\ Returned(t, "modulate_value")
        /\ ret[t] = RetBool(FALSE)
        /\ Returned(u, "update_smoother")
        /\ ret[u] = RetUnit

\* C16: set_normalized_value never changes the parameter: in every
\* interleaving with writes of other threads it stores nothing, and when it has
\* returned it has returned false.
C16_NormalizedWriteIsInert ==
    \A t \in Threads :
        call[t].op = "set_normalized_value" =>
            /\ replaced[t] = ""
            /\ pc[t] = "idle" => ret[t] = RetBool(FALSE)

\* What a finished write call did, as far as a caller or another thread can
\* tell: how it ended, what it returned, how often it took the lock, whether
\* it stored, and the callback invocations it made.
Outcome(t) ==
    <<pc[t], ret[t], acquired[t], replaced[t] /= "", fired[t]>>

\* The write call of thread t has come to its end: it returned, or it blocked
\* or panicked on the lock it held itself.
WriteEnded(t) ==
    \/ pc[t] \in {"idle", "deadlocked"}
    \/ pc[t] = "panicked" /\ replaced[t] /= ""

\* What write_if_changed does to argument p when it sees the stored string s.
WriteContract(t, s, p) ==
    /\ s /= ""
    /\ pc[t] = "idle" =>
          Outcome(t) = <<"idle", RetBool(s /= p), IF s /= p THEN 2 ELSE 1,
                         s /= p, <<>>>>
    /\ pc[t] = "idle" /\ s /= p => ~value_changed
    /\ pc[t] /= "idle" =>
          /\ value_changed /\ s /= p
          /\ Outcome(t) = <<pc[t], NoRet, 2, TRUE, <<>>>>

\* C17: set_value(v) and set_plain_value(v) are the same write: each is the
\* compare under one lock acquisition followed by the store under a second,
\* and two such calls that saw the same stored string with the same argument
\* and ended the same way agree on the return value, on the lock acquisitions,
\* on whether and what they stored and on the callback invocations.
C17_SameWrite ==
    /\ \A t \in Threads :
          WriteEnded(t) /\ call[t].op \in {"set_value", "set_plain_value"} =>
              /\ WriteContract(t, seen[t], call[t].plain)
              /\ plain[t] = call[t].plain
    /\ \A t, u \in Threads :
          /\ call[t].op = "set_value" /\ call[u].op = "set_plain_value"
          /\ WriteEnded(t) /\ WriteEnded(u)
          /\ call[t].plain = call[u].plain /\ seen[t] = seen[u]
          /\ pc[t] = pc[u]
          => Outcome(t) = Outcome(u)

C17_Witness ==
    \E t, u \in Threads :
        /\ Returned(t, "set_value") /\ Returned(u, "set_plain_value")
        /\ call[t].plain = call[u].plain /\ seen[t] = seen[u]
        /\ ret[t].b /\ ret[u].b
        /\ acquired[t] = 2 /\ acquired[u] = 2

====
